---- MODULE Spec2Model ----
(***************************************************************************)
(* A model of the Amazon-finder bot: the command parser (parser.py), the   *)
(* listing pipeline (amazon_search.py: title cleaning, field parsers,      *)
(* filter, deduplication, ranking) and the chat handler (bot.py).          *)
(*                                                                         *)
(* Text is a sequence of one-character strings; the regular expressions of *)
(* the source are written out as matchers over such sequences.  Decimal    *)
(* numbers are records [n |-> mantissa, d |-> power of ten], so that 4.3   *)
(* is [n |-> 43, d |-> 10]; None is the record [none |-> TRUE].            *)
(***************************************************************************)
EXTENDS Integers, Sequences, FiniteSets, TLC

VARIABLES
  \* --- _clean_title run twice (SpecTitle)
  title, cleaned, recleaned,
  \* --- parse_message (SpecParser)
  text, result,
  \* --- search_amazon's pipeline (SpecPipeline, SpecCategory)
  raw, budget, monitor_only, filtered, deduped, ranked, returned,
  \* --- bot.py (SpecBot)
  last_results, browser_context, browser_lock, handlers, cart_calls, replies, received,
  \* --- the position in the flow of the specification at hand
  stage

vars == <<title, cleaned, recleaned, text, result,
          raw, budget, monitor_only, filtered, deduped, ranked, returned,
          last_results, browser_context, browser_lock, handlers, cart_calls, replies,
          received, stage>>

titleVars == <<title, cleaned, recleaned>>
parserVars == <<text, result>>
pipelineVars == <<raw, budget, monitor_only, filtered, deduped, ranked, returned>>
botVars == <<last_results, browser_context, browser_lock, handlers, cart_calls, replies, received>>

\* Python's None
None == [none |-> TRUE]

(***************************************************************************)
(* Characters and the character classes of Python's re (ASCII inputs).     *)
(***************************************************************************)
UpperSeq == <<"A","B","C","D","E","F","G","H","I","J","K","L","M",
              "N","O","P","Q","R","S","T","U","V","W","X","Y","Z">>
LowerSeq == <<"a","b","c","d","e","f","g","h","i","j","k","l","m",
              "n","o","p","q","r","s","t","u","v","w","x","y","z">>
DigitSeq == <<"0","1","2","3","4","5","6","7","8","9">>

UpperSet == {UpperSeq[k] : k \in DOMAIN UpperSeq}
LowerSet == {LowerSeq[k] : k \in DOMAIN LowerSeq}
DigitSet == {DigitSeq[k] : k \in DOMAIN DigitSeq}

IsUpper(c) == c \in UpperSet
IsLower(c) == c \in LowerSet
IsDigit(c) == c \in DigitSet
IsSpace(c) == c \in {" ", "\t", "\n"}
IsWordChar(c) == IsUpper(c) \/ IsLower(c) \/ IsDigit(c) \/ c = "_"

\* the lower-case letter of each upper-case letter
ToLower == [c \in UpperSet |-> LowerSeq[CHOOSE k \in DOMAIN UpperSeq : UpperSeq[k] = c]]

\* str.lower() on one character
LowerChar(c) == IF IsUpper(c) THEN ToLower[c] ELSE c

\* str.lower()
Lower(s) == [k \in DOMAIN s |-> LowerChar(s[k])]

\* int(c) for a digit character
DigitVal(c) == (CHOOSE k \in DOMAIN DigitSeq : DigitSeq[k] = c) - 1

\* s[i:j] with 1-based i and exclusive j
Slice(s, i, j) == IF j <= i THEN <<>> ELSE SubSeq(s, i, j - 1)

\* s.startswith(p, at position i)
MatchAt(s, i, p) ==
  /\ i >= 1
  /\ i + Len(p) - 1 <= Len(s)
  /\ \A k \in 1..Len(p) : s[i + k - 1] = p[k]

\* case-insensitive literal match at i (re.IGNORECASE)
MatchAtI(s, i, p) == MatchAt(Lower(s), i, Lower(p))

StartsWith(s, p) == MatchAt(s, 1, p)

\* p in s
Contains(s, p) == \E i \in 1..(Len(s) + 1) : MatchAt(s, i, p)

\* the first index >= i whose character fails the class test, for the greedy
\* runs \s*, \d+, [a-z]+, \w+ (Len(s)+1 when the run reaches the end)
SpaceEnd(s, i) ==
  IF \E j \in i..Len(s) : ~IsSpace(s[j])
  THEN CHOOSE j \in i..Len(s) : ~IsSpace(s[j]) /\ \A k \in i..(j-1) : IsSpace(s[k])
  ELSE IF i > Len(s) THEN i ELSE Len(s) + 1

LowerEnd(s, i) ==
  IF \E j \in i..Len(s) : ~IsLower(s[j])
  THEN CHOOSE j \in i..Len(s) : ~IsLower(s[j]) /\ \A k \in i..(j-1) : IsLower(s[k])
  ELSE IF i > Len(s) THEN i ELSE Len(s) + 1

DigitEnd(s, i) ==
  IF \E j \in i..Len(s) : ~IsDigit(s[j])
  THEN CHOOSE j \in i..Len(s) : ~IsDigit(s[j]) /\ \A k \in i..(j-1) : IsDigit(s[k])
  ELSE IF i > Len(s) THEN i ELSE Len(s) + 1

WordEnd(s, i) ==
  IF \E j \in i..Len(s) : ~IsWordChar(s[j])
  THEN CHOOSE j \in i..Len(s) : ~IsWordChar(s[j]) /\ \A k \in i..(j-1) : IsWordChar(s[k])
  ELSE IF i > Len(s) THEN i ELSE Len(s) + 1

\* \b at position i (between s[i-1] and s[i])
WordBoundary(s, i) ==
  LET before == i > 1 /\ i - 1 <= Len(s) /\ IsWordChar(s[i-1])
      after  == i >= 1 /\ i <= Len(s) /\ IsWordChar(s[i])
  IN before # after

\* str.strip()
Strip(s) ==
  IF \A k \in DOMAIN s : IsSpace(s[k]) THEN <<>>
  ELSE LET a == CHOOSE k \in DOMAIN s : ~IsSpace(s[k]) /\ \A m \in 1..(k-1) : IsSpace(s[m])
           b == CHOOSE k \in DOMAIN s : ~IsSpace(s[k]) /\ \A m \in (k+1)..Len(s) : IsSpace(s[m])
       IN SubSeq(s, a, b)

\* re.sub(r'\s+', ' ', s)
CollapseSpaces(s) ==
  LET f[i \in 1..(Len(s) + 1)] ==
        IF i > Len(s) THEN <<>>
        ELSE IF IsSpace(s[i]) THEN <<" ">> \o f[SpaceEnd(s, i)]
        ELSE <<s[i]>> \o f[i + 1]
  IN f[1]

\* the concatenation of a sequence of texts
Concat(ws) ==
  LET f[k \in 0..Len(ws)] == IF k = 0 THEN <<>> ELSE f[k - 1] \o ws[k]
  IN f[Len(ws)]

(***************************************************************************)
(* _clean_title (amazon_search.py:297-316): eight re.sub rewrites applied  *)
(* in order, then whitespace collapsing and strip.  Each rewrite has a     *)
(* matcher giving the end (exclusive) of the match that starts at i, or 0, *)
(* and a substitution scanning left to right over non-overlapping matches, *)
(* as re.sub does.                                                         *)
(***************************************************************************)
W_unisex == <<"u","n","i","s","e","x">>
W_adult == <<"a","d","u","l","t">>
W_mens == <<"m","e","n","s">>
W_womens == <<"w","o","m","e","n","s">>

\* an optional "-" at i: the position after it
OptHyphen(s, i) == IF i <= Len(s) /\ s[i] = "-" THEN i + 1 ELSE i

\* \b(?:Unisex\s*-?\s*[Aa]dult|unisex-adult)\b\s*-?\s*   (IGNORECASE)
NoiseAdultEnd(s, i) ==
  IF WordBoundary(s, i) /\ MatchAtI(s, i, W_unisex)
  THEN LET j == SpaceEnd(s, OptHyphen(s, SpaceEnd(s, i + 6)))
       IN IF MatchAtI(s, j, W_adult) /\ WordBoundary(s, j + 5)
          THEN SpaceEnd(s, OptHyphen(s, SpaceEnd(s, j + 5)))
          ELSE 0
  ELSE 0

SubNoiseAdult(s) ==
  LET f[i \in 1..(Len(s) + 1)] ==
        IF i > Len(s) THEN <<>>
        ELSE LET e == NoiseAdultEnd(s, i)
             IN IF e > i THEN f[e] ELSE <<s[i]>> \o f[i + 1]
  IN f[1]

\* \b(?:mens|womens|unisex)\b\s*   (IGNORECASE)
NoiseWordEnd(s, i) ==
  IF ~WordBoundary(s, i) THEN 0
  ELSE IF MatchAtI(s, i, W_mens) /\ WordBoundary(s, i + 4) THEN SpaceEnd(s, i + 4)
  ELSE IF MatchAtI(s, i, W_womens) /\ WordBoundary(s, i + 6) THEN SpaceEnd(s, i + 6)
  ELSE IF MatchAtI(s, i, W_unisex) /\ WordBoundary(s, i + 6) THEN SpaceEnd(s, i + 6)
  ELSE 0

SubNoiseWord(s) ==
  LET f[i \in 1..(Len(s) + 1)] ==
        IF i > Len(s) THEN <<>>
        ELSE LET e == NoiseWordEnd(s, i)
             IN IF e > i THEN f[e] ELSE <<s[i]>> \o f[i + 1]
  IN f[1]

\* \b(\w+)\s+\1\b : a whole word, whitespace, the same word again, ending a word
DupWordEnd(s, i) ==
  IF i <= Len(s) /\ IsWordChar(s[i]) /\ WordBoundary(s, i)
  THEN LET j == WordEnd(s, i)
           k == SpaceEnd(s, j)
           w == Slice(s, i, j)
       IN IF k > j /\ MatchAt(s, k, w) /\ WordBoundary(s, k + Len(w))
          THEN k + Len(w) ELSE 0
  ELSE 0

SubDupWord(s) ==
  LET f[i \in 1..(Len(s) + 1)] ==
        IF i > Len(s) THEN <<>>
        ELSE LET e == DupWordEnd(s, i)
             IN IF e > i THEN Slice(s, i, WordEnd(s, i)) \o f[e]
                ELSE <<s[i]>> \o f[i + 1]
  IN f[1]

\* ([A-Z][a-z]{2,})\1
DupFragmentEnd(s, i) ==
  IF i <= Len(s) /\ IsUpper(s[i])
  THEN LET j == LowerEnd(s, i + 1)
           g == Slice(s, i, j)
       IN IF j - (i + 1) >= 2 /\ MatchAt(s, j, g) THEN j + Len(g) ELSE 0
  ELSE 0

SubDupFragment(s) ==
  LET f[i \in 1..(Len(s) + 1)] ==
        IF i > Len(s) THEN <<>>
        ELSE LET e == DupFragmentEnd(s, i)
             IN IF e > i THEN Slice(s, i, LowerEnd(s, i + 1)) \o f[e]
                ELSE <<s[i]>> \o f[i + 1]
  IN f[1]

\* [A-Z][a-z]+ at i
IsCapWordAt(s, i) == i + 1 <= Len(s) /\ IsUpper(s[i]) /\ IsLower(s[i + 1])

\* the end of the greedy [A-Z][a-z]+(?:\s+[A-Z][a-z]+)* that starts at i
PhraseEnd(s, i) ==
  LET f[p \in 1..(Len(s) + 1)] ==
        IF ~IsCapWordAt(s, p) THEN 0
        ELSE LET e == LowerEnd(s, p + 1)
                 k == SpaceEnd(s, e)
             IN IF k > e /\ IsCapWordAt(s, k) THEN f[k] ELSE e
  IN IF i <= Len(s) THEN f[i] ELSE 0

\* ([A-Z][a-z]+(?:\s+[A-Z][a-z]+)*)\1s?
DupPhraseEnd(s, i) ==
  LET e == PhraseEnd(s, i)
      g == Slice(s, i, e)
      z == e + Len(g)
  IN IF e > i /\ MatchAt(s, e, g)
     THEN (IF z <= Len(s) /\ s[z] = "s" THEN z + 1 ELSE z)
     ELSE 0

SubDupPhrase(s) ==
  LET f[i \in 1..(Len(s) + 1)] ==
        IF i > Len(s) THEN <<>>
        ELSE LET e == DupPhraseEnd(s, i)
             IN IF e > i THEN Slice(s, i, PhraseEnd(s, i)) \o f[e]
                ELSE <<s[i]>> \o f[i + 1]
  IN f[1]

\* ([a-z])([A-Z]) -> \1 \2
SubCamel(s) ==
  LET f[i \in 1..(Len(s) + 1)] ==
        IF i > Len(s) THEN <<>>
        ELSE IF i < Len(s) /\ IsLower(s[i]) /\ IsUpper(s[i + 1])
             THEN <<s[i], " ", s[i + 1]>> \o f[i + 2]
             ELSE <<s[i]>> \o f[i + 1]
  IN f[1]

\* (?<=\s)([A-Z])([A-Z][a-z]{2,})
JammedCapEnd(s, i) ==
  IF i > 1 /\ i + 1 <= Len(s) /\ IsSpace(s[i - 1]) /\ IsUpper(s[i]) /\ IsUpper(s[i + 1])
  THEN LET e == LowerEnd(s, i + 2)
       IN IF e - (i + 2) >= 2 THEN e ELSE 0
  ELSE 0

SubJammedCap(s) ==
  LET f[i \in 1..(Len(s) + 1)] ==
        IF i > Len(s) THEN <<>>
        ELSE LET e == JammedCapEnd(s, i)
             IN IF e > i THEN <<s[i], " ">> \o Slice(s, i + 1, e) \o f[e]
                ELSE <<s[i]>> \o f[i + 1]
  IN f[1]

\* (?<=\s)([SMLX])([a-z]{1,3}-)
SizeLetterEnd(s, i) ==
  IF i > 1 /\ i <= Len(s) /\ IsSpace(s[i - 1]) /\ s[i] \in {"S", "M", "L", "X"}
  THEN LET e == LowerEnd(s, i + 1)
       IN IF e - (i + 1) >= 1 /\ e - (i + 1) <= 3 /\ e <= Len(s) /\ s[e] = "-"
          THEN e + 1 ELSE 0
  ELSE 0

SubSizeLetter(s) ==
  LET f[i \in 1..(Len(s) + 1)] ==
        IF i > Len(s) THEN <<>>
        ELSE LET e == SizeLetterEnd(s, i)
             IN IF e > i THEN <<s[i], " ">> \o Slice(s, i + 1, e) \o f[e]
                ELSE <<s[i]>> \o f[i + 1]
  IN f[1]

clean_title(t) ==
  Strip(CollapseSpaces(SubSizeLetter(SubJammedCap(SubCamel(SubDupPhrase(
    SubDupFragment(SubDupWord(SubNoiseWord(SubNoiseAdult(t))))))))))

(***************************************************************************)
(* Decimal numbers: float(text) for text made of digits and points.        *)
(***************************************************************************)
Pow10(k) ==
  LET f[m \in 0..k] == IF m = 0 THEN 1 ELSE 10 * f[m - 1]
  IN f[k]

\* int(text) for a run of digits (0 for the empty run)
DigitsValue(s) ==
  LET f[k \in 0..Len(s)] == IF k = 0 THEN 0 ELSE 10 * f[k - 1] + DigitVal(s[k])
  IN f[Len(s)]

Dec(n, d) == [n |-> n, d |-> d]

\* whether float(text) returns, for a text of digits and points: it needs a digit
\* and at most one point; otherwise float raises ValueError
IsFloat(s) ==
  /\ \A k \in DOMAIN s : IsDigit(s[k]) \/ s[k] = "."
  /\ \E k \in DOMAIN s : IsDigit(s[k])
  /\ Cardinality({k \in DOMAIN s : s[k] = "."}) <= 1

\* float(text), for a text with IsFloat
ToFloat(s) ==
  LET points == {k \in DOMAIN s : s[k] = "."}
  IN IF points = {} THEN Dec(DigitsValue(s), 1)
     ELSE LET p == CHOOSE k \in points : TRUE
          IN Dec(DigitsValue(SelectSeq(s, IsDigit)), Pow10(Len(s) - p))

DecLess(a, b) == a.n * b.d < b.n * a.d
DecLeq(a, b) == a.n * b.d <= b.n * a.d
DecEq(a, b) == a.n * b.d = b.n * a.d

(***************************************************************************)
(* parse_message (parser.py:18-131).                                       *)
(***************************************************************************)
HelpPhrases == {<<"h","e","l","p">>, <<"s","t","a","r","t">>, <<"h">>}
StatusPhrases == {<<"s","t","a","t","u","s">>, <<"p","i","n","g">>}
CartPhrases == {<<"c","a","r","t">>, <<"s","h","o","w","c","a","r","t">>, <<"s","h","o","w"," ","c","a","r","t">>, <<"v","i","e","w"," ","c","a","r","t">>, <<"m","y"," ","c","a","r","t">>}
ResultsPhrases == {<<"r","e","s","u","l","t","s">>, <<"s","h","o","w"," ","r","e","s","u","l","t","s">>, <<"l","a","s","t">>, <<"l","a","s","t"," ","r","e","s","u","l","t","s">>}

\* a variant of IsPhrase: the text starts with one of the phrases
StartsWithPhrase(lower, phrases) == \E ph \in phrases : StartsWith(lower, ph)

\* "lower in (...)": the whole text is one of the phrases (parser.py:40, 45, 50, 55)
IsPhrase(lower, phrases) == lower \in phrases

W_add == <<"a","d","d">>
W_all == <<"a","l","l">>

\* items of an add command: the marker "all", or a list of integers
ItemsAll == [all |-> TRUE, list |-> <<>>]
ItemsList(l) == [all |-> FALSE, list |-> l]

\* parser.py:37, the record every branch starts from
DefaultBudget == Dec(9999, 1)

InitialResult(t) ==
  [intent |-> "unknown", query |-> <<>>, budget |-> DefaultBudget,
   budget_specified |-> FALSE, items |-> ItemsList(<<>>), raw |-> Strip(t)]

\* re.findall(r'\d+', rest) mapped through int
FindAllInts(s) ==
  LET f[i \in 1..(Len(s) + 1)] ==
        IF i > Len(s) THEN <<>>
        ELSE IF IsDigit(s[i])
             THEN <<DigitsValue(Slice(s, i, DigitEnd(s, i)))>> \o f[DigitEnd(s, i)]
             ELSE f[i + 1]
  IN f[1]

\* parser.py:73-74, in the dict's insertion order
word_map ==
  << <<<<"o","n","e">>, 1>>, <<<<"t","w","o">>, 2>>, <<<<"t","h","r","e","e">>, 3>>, <<<<"f","o","u","r">>, 4>>, <<<<"f","i","v","e">>, 5>>,
     <<<<"f","i","r","s","t">>, 1>>, <<<<"s","e","c","o","n","d">>, 2>>, <<<<"t","h","i","r","d">>, 3>>, <<<<"f","o","u","r","t","h">>, 4>>,
     <<<<"f","i","f","t","h">>, 5>> >>

\* parser.py:75-77
WordNumbers(rest) ==
  LET f[k \in 0..Len(word_map)] ==
        IF k = 0 THEN <<>>
        ELSE IF Contains(rest, word_map[k][1]) THEN Append(f[k - 1], word_map[k][2])
        ELSE f[k - 1]
  IN f[Len(word_map)]

\* parser.py:62-79
AddItems(lower) ==
  LET rest == Strip(Slice(lower, 4, Len(lower) + 1))
      nums == FindAllInts(rest)
      words == WordNumbers(rest)
  IN IF rest = <<>> \/ rest = W_all \/ Contains(rest, W_all) THEN ItemsAll
     ELSE IF nums # <<>> THEN ItemsList(nums)
     ELSE IF words # <<>> THEN ItemsList(words)
     ELSE ItemsAll

\* parser.py:83-84
search_triggers ==
  <<<<"s","e","a","r","c","h">>, <<"f","i","n","d">>, <<"l","o","o","k"," ","f","o","r">>, <<"l","o","o","k","i","n","g"," ","f","o","r">>, <<"g","e","t"," ","m","e">>, <<"f","i","n","d"," ","m","e">>,
    <<"s","h","o","w"," ","m","e">>, <<"i"," ","w","a","n","t">>, <<"i"," ","n","e","e","d">>, <<"b","u","y">>, <<"s","h","o","p"," ","f","o","r">>>>

TriggerMatches(lower) == \E k \in DOMAIN search_triggers : StartsWith(lower, search_triggers[k])

\* a variant of is_search: set only by a matching trigger
is_search_triggered(lower) == TriggerMatches(lower)

\* parser.py:85-97: set by a matching trigger, and set all the same when none matches
is_search(lower) == IF TriggerMatches(lower) THEN TRUE ELSE TRUE

\* parser.py:86-97: the text after the first trigger that prefixes it, stripped;
\* the whole text when none does
SearchRest(lower) ==
  IF TriggerMatches(lower)
  THEN LET k == CHOOSE k \in DOMAIN search_triggers :
                  /\ StartsWith(lower, search_triggers[k])
                  /\ \A m \in 1..(k - 1) : ~StartsWith(lower, search_triggers[m])
       IN Strip(Slice(lower, Len(search_triggers[k]) + 1, Len(lower) + 1))
  ELSE lower

\* the end of the greedy \d+(?:\.\d+)? that starts at the digit at i
NumEnd(s, i) ==
  LET d == DigitEnd(s, i)
  IN IF d + 1 <= Len(s) /\ s[d] = "." /\ IsDigit(s[d + 1]) THEN DigitEnd(s, d + 1) ELSE d

OptDollar(s, i) == IF i <= Len(s) /\ s[i] = "$" THEN i + 1 ELSE i

\* (?:dollars?|bucks?|cad|\$) at k: its end, or 0
CurrencyEnd(s, k) ==
  IF MatchAt(s, k, <<"d","o","l","l","a","r">>) THEN (IF MatchAt(s, k + 6, <<"s">>) THEN k + 7 ELSE k + 6)
  ELSE IF MatchAt(s, k, <<"b","u","c","k">>) THEN (IF MatchAt(s, k + 4, <<"s">>) THEN k + 5 ELSE k + 4)
  ELSE IF MatchAt(s, k, <<"c","a","d">>) THEN k + 3
  ELSE IF MatchAt(s, k, <<"$">>) THEN k + 1
  ELSE 0

\* (?:under|below|max|budget|less than|up to) at i: its end, or 0
QualifierEnd(s, i) ==
  IF MatchAt(s, i, <<"u","n","d","e","r">>) THEN i + 5
  ELSE IF MatchAt(s, i, <<"b","e","l","o","w">>) THEN i + 5
  ELSE IF MatchAt(s, i, <<"m","a","x">>) THEN i + 3
  ELSE IF MatchAt(s, i, <<"b","u","d","g","e","t">>) THEN i + 6
  ELSE IF MatchAt(s, i, <<"l","e","s","s"," ","t","h","a","n">>) THEN i + 9
  ELSE IF MatchAt(s, i, <<"u","p"," ","t","o">>) THEN i + 5
  ELSE 0

\* (?:max|budget|limit) at k: its end, or 0
LimitWordEnd(s, k) ==
  IF MatchAt(s, k, <<"m","a","x">>) THEN k + 3
  ELSE IF MatchAt(s, k, <<"b","u","d","g","e","t">>) THEN k + 6
  ELSE IF MatchAt(s, k, <<"l","i","m","i","t">>) THEN k + 5
  ELSE 0

(* The four budget_patterns (parser.py:103-108).  PatGroup(pat, s, i) is    *)
(* <<start, end>> of group 1 and PatEnd(pat, s, i) the end of the match    *)
(* that starts at i (0: no match at i).  A number followed by a unit can   *)
(* only match with the greedy number: a shorter one is followed by a digit *)
(* or a point, which neither \s* nor a unit matches.                       *)
NumPatterns == 4

PatGroup(pat, s, i) ==
  IF pat = 1 THEN        \* \$\s*(\d+(?:\.\d+)?)
    LET j == SpaceEnd(s, i + 1)
    IN IF i <= Len(s) /\ s[i] = "$" /\ j <= Len(s) /\ IsDigit(s[j])
       THEN <<j, NumEnd(s, j)>> ELSE <<0, 0>>
  ELSE IF pat = 2 THEN   \* (\d+(?:\.\d+)?)\s*(?:dollars?|bucks?|cad|\$)
    IF i <= Len(s) /\ IsDigit(s[i]) /\ CurrencyEnd(s, SpaceEnd(s, NumEnd(s, i))) > 0
    THEN <<i, NumEnd(s, i)>> ELSE <<0, 0>>
  ELSE IF pat = 3 THEN   \* (?:under|...|up to)\s*\$?\s*(\d+(?:\.\d+)?)
    LET q == QualifierEnd(s, i)
        j == SpaceEnd(s, OptDollar(s, SpaceEnd(s, q)))
    IN IF q > 0 /\ j <= Len(s) /\ IsDigit(s[j])
       THEN <<j, NumEnd(s, j)>> ELSE <<0, 0>>
  ELSE                   \* (\d+(?:\.\d+)?)\s*(?:max|budget|limit)
    IF i <= Len(s) /\ IsDigit(s[i]) /\ LimitWordEnd(s, SpaceEnd(s, NumEnd(s, i))) > 0
    THEN <<i, NumEnd(s, i)>> ELSE <<0, 0>>

PatEnd(pat, s, i) ==
  LET g == PatGroup(pat, s, i)
  IN IF g[1] = 0 THEN 0
     ELSE IF pat = 2 THEN CurrencyEnd(s, SpaceEnd(s, g[2]))
     ELSE IF pat = 4 THEN LimitWordEnd(s, SpaceEnd(s, g[2]))
     ELSE g[2]

\* re.search(pat, s): whether it matches, and the start of the leftmost match
PatMatches(pat, s) == \E i \in 1..Len(s) : PatEnd(pat, s, i) > 0

PatFirst(pat, s) ==
  CHOOSE i \in 1..Len(s) : PatEnd(pat, s, i) > 0 /\ \A k \in 1..(i - 1) : PatEnd(pat, s, k) = 0

\* float(m.group(1))
PatBudget(pat, s) ==
  LET g == PatGroup(pat, s, PatFirst(pat, s))
  IN ToFloat(Slice(s, g[1], g[2]))

\* re.sub(pat, '', s): every non-overlapping match is removed
PatRemove(pat, s) ==
  LET f[i \in 1..(Len(s) + 1)] ==
        IF i > Len(s) THEN <<>>
        ELSE LET e == PatEnd(pat, s, i)
             IN IF e > i THEN f[e] ELSE <<s[i]>> \o f[i + 1]
  IN f[1]

\* str.split()[-1]: the last whitespace-separated token (<<>> when there is none)
LastWord(s) ==
  LET t == Strip(s)
  IN IF t = <<>> THEN <<>>
     ELSE IF \E k \in DOMAIN t : IsSpace(t[k])
     THEN LET k == CHOOSE k \in DOMAIN t : IsSpace(t[k]) /\ \A m \in (k + 1)..Len(t) : ~IsSpace(t[m])
          IN Slice(t, k + 1, Len(t) + 1)
     ELSE t

\* ' '.join(s.split()[:-1])
ButLastWord(s) ==
  LET t == Strip(s)
  IN CollapseSpaces(Strip(Slice(t, 1, Len(t) - Len(LastWord(s)) + 1)))

\* the test of parser.py:119 with the threshold itself let through
LastWordFromTen(s) ==
  LET w == LastWord(s)
  IN w # <<>> /\ (\A k \in DOMAIN w : IsDigit(w[k])) /\ DigitsValue(w) >= 10

\* parser.py:119: the last word is a bare integer greater than 10
LastWordIsBudget(s) ==
  LET w == LastWord(s)
  IN w # <<>> /\ (\A k \in DOMAIN w : IsDigit(w[k])) /\ DigitsValue(w) > 10

FillerWords ==
  {<<"a">>, <<"a","n">>, <<"t","h","e">>, <<"m","e">>, <<"f","o","r">>, <<"o","n">>, <<"a","m","a","z","o","n">>, <<"p","l","e","a","s","e">>, <<"g","o","o","d">>,
   <<"b","e","s","t">>, <<"n","i","c","e">>, <<"g","r","e","a","t">>}

\* re.sub(r'\b(a|an|the|me|for|on|amazon|please|good|best|nice|great)\b', '', s)
RemoveFillers(s) ==
  LET f[i \in 1..(Len(s) + 1)] ==
        IF i > Len(s) THEN <<>>
        ELSE IF IsWordChar(s[i]) /\ WordBoundary(s, i)
                /\ Slice(s, i, WordEnd(s, i)) \in FillerWords
             THEN f[WordEnd(s, i)]
             ELSE <<s[i]>> \o f[i + 1]
  IN f[1]

DefaultQuery == <<"p","o","r","t","a","b","l","e"," ","m","o","n","i","t","o","r">>

\* parser.py:99-129
SearchResult(t, search_rest) ==
  LET matching == {pat \in 1..NumPatterns : PatMatches(pat, search_rest)}
      pat == CHOOSE p \in matching : \A q \in matching : p <= q
      byPattern == matching # {}
      byLast == ~byPattern /\ LastWordIsBudget(search_rest)
      rest == IF byPattern THEN Strip(PatRemove(pat, search_rest))
              ELSE IF byLast THEN ButLastWord(search_rest)
              ELSE search_rest
      query == Strip(CollapseSpaces(RemoveFillers(rest)))
  IN [InitialResult(t) EXCEPT
        !.intent = "search",
        !.budget = IF byPattern THEN PatBudget(pat, search_rest)
                   ELSE IF byLast THEN ToFloat(LastWord(search_rest))
                   ELSE @,
        !.budget_specified = byPattern \/ byLast,
        !.query = IF query = <<>> THEN DefaultQuery ELSE query]

\* parser.py:29-35: strip, lower-case, drop one leading "/"
Normalized(t) ==
  LET lower == Lower(Strip(t))
  IN IF StartsWith(lower, <<"/">>) THEN Tail(lower) ELSE lower

parse_message(t) ==
  LET lower == Normalized(t)
  IN IF IsPhrase(lower, HelpPhrases) THEN [InitialResult(t) EXCEPT !.intent = "help"]
     ELSE IF IsPhrase(lower, StatusPhrases) THEN [InitialResult(t) EXCEPT !.intent = "status"]
     ELSE IF IsPhrase(lower, CartPhrases) THEN [InitialResult(t) EXCEPT !.intent = "cart"]
     ELSE IF IsPhrase(lower, ResultsPhrases) THEN [InitialResult(t) EXCEPT !.intent = "results"]
     ELSE IF StartsWith(lower, W_add)
          THEN [InitialResult(t) EXCEPT !.intent = "add", !.items = AddItems(lower)]
     ELSE IF is_search(lower) THEN SearchResult(t, SearchRest(lower))
     ELSE InitialResult(t)

(***************************************************************************)
(* The field parsers (amazon_search.py:319-360).  Where float() raises     *)
(* ValueError the parser raises: rating_raises, reviews_raises.            *)
(***************************************************************************)
IsDigitDot(c) == IsDigit(c) \/ c = "."

\* the end of the greedy [\d.]+ run at i
DigitDotEnd(s, i) ==
  IF \E j \in i..Len(s) : ~IsDigitDot(s[j])
  THEN CHOOSE j \in i..Len(s) : ~IsDigitDot(s[j]) /\ \A k \in i..(j-1) : IsDigitDot(s[k])
  ELSE IF i > Len(s) THEN i ELSE Len(s) + 1

\* _parse_price
parse_price(s) ==
  IF s = <<>> THEN None
  ELSE LET cleaned_text == SelectSeq(s, IsDigitDot)
       IN IF IsFloat(cleaned_text) THEN ToFloat(cleaned_text) ELSE None

\* (?:out of|/) at k: its end, or 0
OutOfEnd(s, k) ==
  IF MatchAt(s, k, <<"o","u","t"," ","o","f">>) THEN k + 6
  ELSE IF MatchAt(s, k, <<"/">>) THEN k + 1
  ELSE 0

\* ([\d.]+)\s*(?:out of|/)\s*5 matches with its group starting at i.  The group is
\* the whole run: a shorter one is followed by a digit or a point.
OutOfFiveAt(s, i) ==
  /\ i <= Len(s) /\ IsDigitDot(s[i])
  /\ LET k == OutOfEnd(s, SpaceEnd(s, DigitDotEnd(s, i)))
     IN k > 0 /\ MatchAt(s, SpaceEnd(s, k), <<"5">>)

\* the start of the leftmost [\d.]+ run
FirstDigitDot(s) == CHOOSE i \in DOMAIN s : IsDigitDot(s[i]) /\ \A k \in 1..(i-1) : ~IsDigitDot(s[k])

\* m.group(1) of the "<number> out of 5" form (amazon_search.py:332)
OutOfFiveGroup(s) ==
  LET i == CHOOSE i \in DOMAIN s : OutOfFiveAt(s, i) /\ \A k \in 1..(i-1) : ~OutOfFiveAt(s, k)
  IN Slice(s, i, DigitDotEnd(s, i))

\* m.group(1) of the first-number fallback (amazon_search.py:335)
FirstNumberGroup(s) == Slice(s, FirstDigitDot(s), DigitDotEnd(s, FirstDigitDot(s)))

\* the text _parse_rating hands to float(), <<>> when it hands none
RatingGroup(s) ==
  IF \E i \in DOMAIN s : OutOfFiveAt(s, i) THEN OutOfFiveGroup(s)
  ELSE IF \E i \in DOMAIN s : IsDigitDot(s[i]) THEN FirstNumberGroup(s)
  ELSE <<>>

\* _parse_rating raises ValueError
rating_raises(s) == RatingGroup(s) # <<>> /\ ~IsFloat(RatingGroup(s))

\* the first number of the text, accepted when <= 5.0 (amazon_search.py:335-338)
RatingFallback(s) ==
  LET val == ToFloat(FirstNumberGroup(s))
  IN IF DecLeq(val, Dec(5, 1)) THEN val ELSE None

\* _parse_rating, where it returns
parse_rating(s) ==
  IF s = <<>> THEN None
  ELSE IF \E i \in DOMAIN s : OutOfFiveAt(s, i) THEN ToFloat(OutOfFiveGroup(s))
  ELSE IF \E i \in DOMAIN s : IsDigitDot(s[i]) THEN RatingFallback(s)
  ELSE None

\* ([\d.]+)\s*[Kk] with its group starting at i
ThousandsAt(s, i) ==
  /\ i <= Len(s) /\ IsDigitDot(s[i])
  /\ LET k == SpaceEnd(s, DigitDotEnd(s, i))
     IN k <= Len(s) /\ s[k] \in {"K", "k"}

NotComma(c) == c # ","

\* m.group(1) of ([\d.]+)\s*[Kk] in the cleaned text, <<>> when it does not match
ThousandsGroup(c) ==
  IF \E i \in DOMAIN c : ThousandsAt(c, i)
  THEN LET i == CHOOSE i \in DOMAIN c : ThousandsAt(c, i) /\ \A k \in 1..(i-1) : ~ThousandsAt(c, k)
       IN Slice(c, i, DigitDotEnd(c, i))
  ELSE <<>>

\* _parse_reviews raises ValueError
reviews_raises(s) ==
  LET g == ThousandsGroup(Strip(SelectSeq(s, NotComma)))
  IN g # <<>> /\ ~IsFloat(g)

\* _parse_reviews, where it returns; int(float(g) * 1000) is computed on the exact
\* decimal
parse_reviews(s) ==
  LET c == Strip(SelectSeq(s, NotComma))
  IN IF s = <<>> THEN 0
     ELSE IF ThousandsGroup(c) # <<>>
     THEN (ToFloat(ThousandsGroup(c)).n * 1000) \div ToFloat(ThousandsGroup(c)).d
     ELSE IF \E i \in DOMAIN c : IsDigit(c[i])
     THEN LET i == CHOOSE i \in DOMAIN c : IsDigit(c[i]) /\ \A k \in 1..(i-1) : ~IsDigit(c[k])
          IN DigitsValue(Slice(c, i, DigitEnd(c, i)))
     ELSE 0

\* the end of the greedy \d+\.?\d* that starts at the digit at i
SizeNumEnd(s, i) ==
  LET d == DigitEnd(s, i)
  IN IF d <= Len(s) /\ s[d] = "." THEN DigitEnd(s, d + 1) ELSE d

\* [Ii]nch at k
InchAt(s, k) == k <= Len(s) /\ s[k] \in {"I", "i"} /\ MatchAt(s, k + 1, <<"n","c","h">>)

\* the four patterns of _parse_screen_size matched with the number at i: the
\* number's end, or 0.  (The double-prime alternative of the third pattern is
\* outside the ASCII alphabet.)
SizePatEnd(pat, s, i) ==
  IF ~(i <= Len(s) /\ IsDigit(s[i])) THEN 0
  ELSE LET e == SizeNumEnd(s, i)
           k == SpaceEnd(s, e)
           h == IF k <= Len(s) /\ s[k] \in {"-", "\""} THEN k + 1 ELSE k
       IN IF pat = 1 THEN      \* (\d+\.?\d*)\s*[-"]?\s*[Ii]nch
            (IF InchAt(s, SpaceEnd(s, h)) THEN e ELSE 0)
          ELSE IF pat = 2 THEN \* (\d+\.?\d*)\s*"
            (IF k <= Len(s) /\ s[k] = "\"" THEN e ELSE 0)
          ELSE IF pat = 3 THEN \* (\d+\.?\d*)["″]
            (IF e <= Len(s) /\ s[e] = "\"" THEN e ELSE 0)
          ELSE                 \* (\d+\.?\d*)\s*[Ii]n\b
            (IF k <= Len(s) /\ s[k] \in {"I", "i"} /\ MatchAt(s, k + 1, <<"n">>)
                /\ WordBoundary(s, k + 2)
             THEN e ELSE 0)

\* float(m.group(1)) of the pattern's leftmost match, None when it does not match
SizeOfPattern(pat, s) ==
  IF \E i \in DOMAIN s : SizePatEnd(pat, s, i) > 0
  THEN LET i == CHOOSE i \in DOMAIN s :
                  SizePatEnd(pat, s, i) > 0 /\ \A k \in 1..(i-1) : SizePatEnd(pat, s, k) = 0
       IN ToFloat(Slice(s, i, SizePatEnd(pat, s, i)))
  ELSE None

SizeInRange(v) == v # None /\ DecLeq(Dec(10, 1), v) /\ DecLeq(v, Dec(30, 1))

\* _parse_screen_size: the first pattern, in order, whose leftmost match is in 10..30
parse_screen_size(t) ==
  IF SizeInRange(SizeOfPattern(1, t)) THEN SizeOfPattern(1, t)
  ELSE IF SizeInRange(SizeOfPattern(2, t)) THEN SizeOfPattern(2, t)
  ELSE IF SizeInRange(SizeOfPattern(3, t)) THEN SizeOfPattern(3, t)
  ELSE IF SizeInRange(SizeOfPattern(4, t)) THEN SizeOfPattern(4, t)
  ELSE None

(***************************************************************************)
(* _is_actual_monitor (amazon_search.py:363-379).                          *)
(***************************************************************************)
EXCLUDE_KEYWORDS ==
  <<<<"s","t","a","n","d">>, <<"h","o","l","d","e","r">>, <<"m","o","u","n","t">>, <<"b","r","a","c","k","e","t">>, <<"c","a","s","e">>, <<"s","l","e","e","v","e">>, <<"b","a","g">>,
    <<"c","a","b","l","e">>, <<"a","d","a","p","t","e","r">>, <<"h","u","b">>, <<"d","o","c","k">>, <<"c","h","a","r","g","e","r">>, <<"s","t","y","l","u","s">>, <<"p","e","n">>,
    <<"k","e","y","b","o","a","r","d">>, <<"m","o","u","s","e">>, <<"a","r","m">>, <<"r","i","s","e","r">>, <<"p","r","o","t","e","c","t","o","r">>, <<"f","i","l","m">>, <<"c","l","e","a","n","i","n","g">>,
    <<"c","o","v","e","r">>, <<"s","k","i","n">>>>

monitor_terms == {<<"m","o","n","i","t","o","r">>, <<"d","i","s","p","l","a","y">>, <<"s","c","r","e","e","n">>}

has_monitor(lower) == \E t \in monitor_terms : Contains(lower, t)

is_actual_monitor(t) ==
  LET lower == Lower(t)
      excluded(kw) ==
        \/ StartsWith(lower, kw)
        \/ Contains(lower, <<" ">> \o kw \o <<" ","f","o","r"," ">>)
        \/ Contains(lower, <<" ">> \o kw \o <<",">>)
        \/ (Contains(lower, kw) /\ ~has_monitor(lower))
  IN IF \E k \in DOMAIN EXCLUDE_KEYWORDS : excluded(EXCLUDE_KEYWORDS[k]) THEN FALSE
     ELSE has_monitor(lower)

(***************************************************************************)
(* _filter_and_parse, _deduplicate, _rank (amazon_search.py:384-452).      *)
(* A raw listing is a record of texts [title, price, rating, reviews,      *)
(* asin, href]; an absent key reads as the empty text (r.get(key, "")).    *)
(***************************************************************************)
\* amazon_search.py:394
ListingUrl(asin, href) ==
  IF asin # <<>> THEN <<"h","t","t","p","s",":","/","/","w","w","w",".","a","m","a","z","o","n",".","c","a","/","d","p","/">> \o asin
  ELSE IF StartsWith(href, <<"/">>) THEN <<"h","t","t","p","s",":","/","/","w","w","w",".","a","m","a","z","o","n",".","c","a">> \o href
  ELSE href

\* a variant of OverBudget: an unknown price counts as over the budget
OverBudgetOrUnknown(price, bud) == price = None \/ DecLess(bud, price)

\* price > budget, for a known price (amazon_search.py:390)
OverBudget(price, bud) == price # None /\ DecLess(bud, price)

\* the dict built at amazon_search.py:395-403
ParsedListing(r) ==
  [title |-> clean_title(r.title),
   price |-> parse_price(r.price),
   rating |-> parse_rating(r.rating),
   reviews |-> parse_reviews(r.reviews),
   screen_size |-> parse_screen_size(r.title),
   url |-> ListingUrl(r.asin, r.href),
   asin |-> r.asin]

\* what _filter_and_parse computes from one raw listing: the verdict of the
\* category filter (line 387), the price (389), whether a field parser raises
\* (398-399), and the dict it appends when the listing is kept (395-403)
ListingFacts(r) ==
  [is_monitor |-> is_actual_monitor(r.title),
   price |-> parse_price(r.price),
   raises |-> rating_raises(r.rating) \/ reviews_raises(r.reviews),
   parsed |-> ParsedListing(r)]

(* The pool of scraped fragments the batches are drawn from, and the facts  *)
(* of each fragment, tabulated.                                            *)
RawListing(t, p, r, v, a) ==
  [title |-> t, price |-> p, rating |-> r, reviews |-> v, asin |-> a, href |-> <<"/","d","p","/","x">>]

RawPool ==
  {RawListing(<<"D","e","l","l"," ","M","o","n","i","t","o","r"," ","2","7","-","i","n","c","h">>, <<"$","9","9",".","9","9">>, <<"4",".","3"," ","o","u","t"," ","o","f"," ","5"," ","s","t","a","r","s">>, <<"1","2","0">>, <<"B","1">>),
   RawListing(<<"d","e","l","l"," "," ","m","o","n","i","t","o","r"," ","2","7","-","i","n","c","h">>, <<"$","2","5","0">>, <<"4",".","5">>, <<"1","k">>, <<"B","2">>),
   RawListing(<<"L","G"," ","D","i","s","p","l","a","y">>, <<>>, <<>>, <<>>, <<"B","1">>),
   RawListing(<<"A","s","u","s"," ","S","c","r","e","e","n">>, <<>>, <<>>, <<>>, <<>>),
   RawListing(<<"A","c","e","r"," ","S","c","r","e","e","n">>, <<"1",",","2","9","9",".","9","9">>, <<"1","2","7">>, <<"5","0">>, <<>>),
   RawListing(<<"M","o","n","i","t","o","r"," ","S","t","a","n","d"," ","f","o","r"," ","2","7","-","i","n","c","h"," ","M","o","n","i","t","o","r">>, <<"$","2","5","0">>, <<"1","2","/","5">>, <<"5","0">>, <<"B","3">>),
   RawListing(<<"H","P"," ","D","i","s","p","l","a","y">>, <<"$","3","0","0">>, <<"5","/","5">>, <<"7">>, <<"B","2">>),
   RawListing(<<"H","P"," ","M","o","n","i","t","o","r">>, <<"$","3","0","0">>, <<"1",".","2",".","3"," ","o","u","t"," ","o","f"," ","5">>, <<"7">>, <<"B","4">>)}

PoolFacts == [r \in RawPool |-> ListingFacts(r)]

\* a listing with facts f passes the category filter and the budget filter
\* (amazon_search.py:387-391)
Kept(f, bud, monitorOnly) ==
  /\ monitorOnly => f.is_monitor
  /\ ~OverBudget(f.price, bud)

\* the loop of _filter_and_parse over the facts of the raw listings: whether it
\* raises (a field parser raises on a listing that is kept) and, where it does
\* not, the list it returns
FilterLoop(facts, bud, monitorOnly) ==
  LET f[k \in 0..Len(facts)] ==
        IF k = 0 THEN <<>>
        ELSE IF Kept(facts[k], bud, monitorOnly)
             THEN Append(f[k - 1], facts[k].parsed)
             ELSE f[k - 1]
  IN [raises |-> \E k \in DOMAIN facts : Kept(facts[k], bud, monitorOnly) /\ facts[k].raises,
      products |-> f[Len(facts)]]

\* _filter_and_parse on a batch drawn from the pool
filter_and_parse(rawList, bud, monitorOnly) ==
  FilterLoop([k \in DOMAIN rawList |-> PoolFacts[rawList[k]]], bud, monitorOnly)

\* the title key of _deduplicate (amazon_search.py:445)
TitleKey(t) == CollapseSpaces(Strip(Lower(t)))

\* a variant of DedupStep: only the identifier is checked and recorded
DedupStepAsinOnly(st, p, k, tk) ==
  IF p.asin # <<>> /\ p.asin \in st.seen_asins THEN st
  ELSE [seen_asins |-> IF p.asin # <<>> THEN st.seen_asins \cup {p.asin}
                       ELSE st.seen_asins,
        seen_titles |-> st.seen_titles,
        unique |-> Append(st.unique, k)]

\* a variant of DedupStep: the keys of a dropped listing are recorded too
DedupStepRecordsDropped(st, p, k, tk) ==
  LET seen == [seen_asins |-> IF p.asin # <<>> THEN st.seen_asins \cup {p.asin}
                              ELSE st.seen_asins,
               seen_titles |-> st.seen_titles \cup {tk}]
  IN IF (p.asin # <<>> /\ p.asin \in st.seen_asins) \/ tk \in st.seen_titles
     THEN [seen_asins |-> seen.seen_asins, seen_titles |-> seen.seen_titles,
           unique |-> st.unique]
     ELSE [seen_asins |-> seen.seen_asins, seen_titles |-> seen.seen_titles,
           unique |-> Append(st.unique, k)]

\* one pass of the loop of _deduplicate (amazon_search.py:441-451) over the
\* k-th listing p with title key tk, from the loop state st
DedupStep(st, p, k, tk) ==
  IF p.asin # <<>> /\ p.asin \in st.seen_asins THEN st
  ELSE IF tk \in st.seen_titles THEN st
  ELSE [seen_asins |-> IF p.asin # <<>> THEN st.seen_asins \cup {p.asin}
                       ELSE st.seen_asins,
        seen_titles |-> st.seen_titles \cup {tk},
        unique |-> Append(st.unique, k)]

\* the indices of the listings _deduplicate keeps, in order: the loop of
\* amazon_search.py:440-451 with its two seen-sets
DedupKeep(products) ==
  LET f[k \in 0..Len(products)] ==
        IF k = 0 THEN [seen_asins |-> {}, seen_titles |-> {}, unique |-> <<>>]
        ELSE DedupStep(f[k - 1], products[k], k, TitleKey(products[k].title))
  IN f[Len(products)].unique

\* the listings at the indices keep, in that order
Select(products, keep) == [j \in DOMAIN keep |-> products[keep[j]]]

\* _deduplicate
deduplicate(products) == Select(products, DedupKeep(products))

RECURSIVE GCD(_, _)
GCD(a, b) == IF b = 0 THEN a ELSE GCD(b, a % b)

\* fractions n/d with d > 0, kept in lowest terms
Frac(n, d) == LET g == GCD(n, d) IN IF g = 0 THEN [n |-> 0, d |-> 1] ELSE [n |-> n \div g, d |-> d \div g]

FracAdd(a, b) ==
  LET l == (a.d \div GCD(a.d, b.d)) * b.d
  IN Frac(a.n * (l \div a.d) + b.n * (l \div b.d), l)

\* the nearest integer to n/d, ties to even
RoundFrac(a) ==
  LET q == a.n \div a.d
      r == a.n % a.d
  IN IF 2 * r > a.d THEN q + 1
     ELSE IF 2 * r < a.d THEN q
     ELSE IF q % 2 = 0 THEN q ELSE q + 1

\* amazon_search.py:409
MaxReviews(products) ==
  LET counts == {products[k].reviews : k \in DOMAIN products} \ {0}
  IN IF counts = {} THEN 1 ELSE CHOOSE m \in counts : \A c \in counts : c <= m

Min(a, b) == IF a <= b THEN a ELSE b

(* The four components of the score (amazon_search.py:416-431), in tenths  *)
(* of a point, as exact fractions.                                         *)
ReviewPoints(p, max_reviews) ==
  IF p.reviews > 0 THEN Frac(450 * p.reviews, max_reviews) ELSE Frac(0, 1)

RatingPoints(p) ==
  IF p.rating # None /\ p.rating.n # 0
  THEN Frac(7 * p.rating.n * Min(p.reviews, 50), 5 * p.rating.d)
  ELSE Frac(0, 1)

PricePoints(p) ==
  IF p.price # None /\ p.price.n > 0
  THEN (IF p.price.n < 1000 * p.price.d
        THEN Frac(1000 * p.price.d - p.price.n, 10 * p.price.d)
        ELSE Frac(0, 1))
  ELSE Frac(0, 1)

SizePoints(p) == IF p.screen_size # None /\ p.screen_size.n # 0 THEN Frac(100, 1) ELSE Frac(0, 1)

\* round(score, 1) in tenths of a point: p["score"] * 10.  The sum is exact where
\* the source adds floats; the two agree except within float error of a tie.
Score(p, max_reviews) ==
  RoundFrac(FracAdd(FracAdd(ReviewPoints(p, max_reviews), RatingPoints(p)),
                    FracAdd(PricePoints(p), SizePoints(p))))

\* p with p["score"] set
Scored(p, max_reviews) ==
  [title |-> p.title, price |-> p.price, rating |-> p.rating, reviews |-> p.reviews,
   screen_size |-> p.screen_size, url |-> p.url, asin |-> p.asin,
   score |-> Score(p, max_reviews)]

\* a variant of SortsBefore: p goes before the elements with its own score
SortsBeforeStrict(a, b) == a.score > b.score

\* the key of a product for products.sort(key=score, reverse=True): list.sort is
\* stable also with reverse=True, so p goes after every element whose score
\* is >= its own
SortsBefore(a, b) == a.score >= b.score

InsertByScore(sorted, p) ==
  LET n == Cardinality({i \in DOMAIN sorted : SortsBefore(sorted[i], p)})
  IN SubSeq(sorted, 1, n) \o <<p>> \o SubSeq(sorted, n + 1, Len(sorted))

SortByScore(products) ==
  LET f[k \in 0..Len(products)] ==
        IF k = 0 THEN <<>> ELSE InsertByScore(f[k - 1], products[k])
  IN f[Len(products)]

\* the body of _rank after max_reviews is computed (amazon_search.py:411-435)
RankWith(products, max_reviews) ==
  SortByScore([k \in DOMAIN products |-> Scored(products[k], max_reviews)])

\* _rank: the list it returns (the list it was given, scored and sorted in place)
rank(products) == RankWith(products, MaxReviews(products))

\* the dicts of the list products after _rank has scored, in place, those at
\* the indices keep: the dicts of the deduplicated list are the same objects
ScoredInPlace(products, keep, max_reviews) ==
  [k \in DOMAIN products |->
     IF \E j \in DOMAIN keep : keep[j] = k
     THEN Scored(products[k], max_reviews)
     ELSE products[k]]

(***************************************************************************)
(* Inputs.  Titles and messages are concatenations of a few tokens; raw    *)
(* listings come from a pool of scraped fragments.                         *)
(***************************************************************************)
MaxTitleTokens == 3
MaxArgs == 2
MaxBatch == 3

\* all sequences of at most n elements of S
SeqsUpTo(S, n) == UNION {[1..k -> S] : k \in 0..n}

TitleTokens ==
  {<<"O","a","k","l","e","y"," ">>, <<"G","o","g","g","l","e">>, <<"S","n","o","w"," ">>, <<"G","o","g","g","l","e","s"," ">>, <<"M","T","B">>, <<"M","t","b">>, <<"M","s","k","i","-">>, <<"m","e","n","s"," ">>}

TitleInputs == {Concat(ws) : ws \in SeqsUpTo(TitleTokens, MaxTitleTokens)}

MessageHeads ==
  {<<>>, <<"a","d","d">>, <<"/","a","d","d">>, <<"f","i","n","d">>, <<"s","e","a","r","c","h">>, <<"c","a","r","t">>, <<"/","h","e","l","p">>, <<" ","H","e","l","p"," ">>,
   <<"s","t","a","t","u","s">>, <<"s","h","o","w">>, <<"/"," ">>}

MessageArgs ==
  {<<" ","a","l","l">>, <<" ","1">>, <<" ","3">>, <<" ","5">>, <<" ","s","m","a","l","l">>, <<" ","o","r","g","a","n","i","z","e","r">>, <<" ","m","o","n","i","t","o","r">>,
   <<" ","u","n","d","e","r"," ","2","5","0">>, <<" ","$","3","0","0">>, <<" ","3","0","0">>, <<" ","1","0">>, <<" ","c","a","r","t">>, <<" ","r","e","s","u","l","t","s">>, <<"h","e","l","p">>}

Messages ==
  {h \o Concat(as) : h \in MessageHeads, as \in SeqsUpTo(MessageArgs, MaxArgs)}

RawBatches == SeqsUpTo(RawPool, MaxBatch)

\* the budget handed to search_amazon: the parser's default or an explicit one
Budgets == {DefaultBudget, Dec(300, 1)}

(***************************************************************************)
(* SpecBot: handle_message and the worker threads of bot.py.  A handler    *)
(* runs on the event loop up to its run_in_executor call; the worker       *)
(* thread takes browser_lock, gets the browser, runs the operation and     *)
(* releases the lock; the handler then resumes with the outcome.           *)
(* A listing of a search result is [asin |-> k, title |-> k], k its rank.  *)
(***************************************************************************)
\* amazon_search.py:515
TopN == 10

MaxHandlers == 2
MaxMessages == 3

HandlerIds == 1..MaxHandlers

\* the lengths of the lists search_amazon returns here (at most ranked[:10])
ResultLengths == {0, 3, 6, TopN}

SearchOutcomes == {[k \in 1..n |-> [asin |-> k, title |-> k]] : n \in ResultLengths}

BotMessages ==
  {<<"a","d","d"," ","a","l","l">>, <<"a","d","d"," ","1"," ","3">>, <<"a","d","d"," ","7">>, <<"a","d","d"," ","1"," ","7">>, <<"r","e","s","u","l","t","s">>, <<"s","t","a","t","u","s">>, <<"h","e","l","p">>, <<"c","a","r","t">>,
   <<"f","i","n","d"," ","m","o","n","i","t","o","r"," ","3","0","0">>, <<"h","e","l","l","o">>}

\* the locals of a handle_message coroutine: where it is, the items of its add
\* command, the products it passes on, the results of its search
IdleHandler == [pc |-> "idle", items |-> ItemsList(<<>>), products |-> <<>>, results |-> <<>>,
                query |-> <<>>, budget |-> DefaultBudget]

\* bot.py:236
CartItem(p) == [asin |-> p.asin, name |-> p.title]

\* bot.py:222: the listings "add all" selects
AllSelection(results) == SubSeq(results, 1, Min(5, Len(results)))

\* a variant of IndexSelection: an index beyond the end selects the last listing
IndexSelectionClamped(results, idxs) ==
  LET f[k \in 0..Len(idxs)] ==
        IF k = 0 THEN <<>>
        ELSE IF 1 <= idxs[k]
             THEN Append(f[k - 1], results[Min(idxs[k], Len(results))])
             ELSE f[k - 1]
  IN f[Len(idxs)]

\* bot.py:224-227: the listings a list of indices selects
IndexSelection(results, idxs) ==
  LET f[k \in 0..Len(idxs)] ==
        IF k = 0 THEN <<>>
        ELSE IF 1 <= idxs[k] /\ idxs[k] <= Len(results)
             THEN Append(f[k - 1], results[idxs[k]])
             ELSE f[k - 1]
  IN f[Len(idxs)]

\* bot.py:220-227
to_add(results, items) ==
  IF items.all THEN AllSelection(results) ELSE IndexSelection(results, items.list)

products_to_add(results, items) ==
  [k \in DOMAIN to_add(results, items) |-> CartItem(to_add(results, items)[k])]

BotIdle ==
  /\ last_results = <<>> /\ browser_context = FALSE /\ browser_lock = 0
  /\ handlers = [h \in HandlerIds |-> IdleHandler]
  /\ cart_calls = {} /\ replies = {} /\ received = 0

(***************************************************************************)
(* The values the variables of the other specifications rest at.           *)
(***************************************************************************)
TitleIdle == title = <<>> /\ cleaned = <<>> /\ recleaned = <<>>
ParserIdle == text = <<>> /\ result = InitialResult(<<>>)
PipelineIdle ==
  /\ raw = <<>> /\ budget = DefaultBudget /\ monitor_only = FALSE
  /\ filtered = <<>> /\ deduped = <<>> /\ ranked = <<>> /\ returned = <<>>

(***************************************************************************)
(* SpecTitle: _clean_title applied to a title, then to its own output.     *)
(***************************************************************************)
InitTitle ==
  /\ title \in TitleInputs /\ cleaned = <<>> /\ recleaned = <<>>
  /\ stage = "title"
  /\ ParserIdle /\ PipelineIdle /\ BotIdle

CleanTitle ==
  /\ stage = "title"
  /\ cleaned' = clean_title(title)
  /\ stage' = "cleaned"
  /\ UNCHANGED <<title, recleaned, parserVars, pipelineVars, botVars>>

CleanAgain ==
  /\ stage = "cleaned"
  /\ recleaned' = clean_title(cleaned)
  /\ stage' = "recleaned"
  /\ UNCHANGED <<title, cleaned, parserVars, pipelineVars, botVars>>

NextTitle == CleanTitle \/ CleanAgain

SpecTitle == InitTitle /\ [][NextTitle]_vars

(***************************************************************************)
(* SpecParser: parse_message applied to a message.                         *)
(***************************************************************************)
InitParser ==
  /\ text \in Messages /\ result = InitialResult(<<>>)
  /\ stage = "message"
  /\ TitleIdle /\ PipelineIdle /\ BotIdle

Parse ==
  /\ stage = "message"
  /\ result' = parse_message(text)
  /\ stage' = "parsed"
  /\ UNCHANGED <<text, titleVars, pipelineVars, botVars>>

NextParser == Parse

SpecParser == InitParser /\ [][NextParser]_vars

(***************************************************************************)
(* SpecPipeline: the tail of search_amazon (amazon_search.py:510-515) on a *)
(* batch of raw listings.                                                  *)
(***************************************************************************)
InitPipeline ==
  /\ raw \in RawBatches /\ budget \in Budgets /\ monitor_only \in BOOLEAN
  /\ filtered = <<>> /\ deduped = <<>> /\ ranked = <<>> /\ returned = <<>>
  /\ stage = "extracted"
  /\ TitleIdle /\ ParserIdle /\ BotIdle

\* _filter_and_parse returns, or a field parser raises ValueError, which
\* nothing in search_amazon catches
FilterAndParse(out) ==
  /\ stage = "extracted"
  /\ \/ /\ ~out.raises
        /\ filtered' = out.products
        /\ stage' = "filtered"
     \/ /\ out.raises
        /\ filtered' = filtered
        /\ stage' = "raised"
  /\ UNCHANGED <<raw, budget, monitor_only, deduped, ranked, returned, titleVars, parserVars, botVars>>

Filter == FilterAndParse(filter_and_parse(raw, budget, monitor_only))

Deduplicate ==
  /\ stage = "filtered"
  /\ deduped' = deduplicate(filtered)
  /\ stage' = "deduped"
  /\ UNCHANGED <<raw, budget, monitor_only, filtered, ranked, returned, titleVars, parserVars, botVars>>

\* _rank scores the dicts of its argument and sorts the list in place, then
\* returns it: deduped and ranked are one list, and the dicts of filtered that
\* _deduplicate kept are the same objects, so they carry the score too
Rank ==
  /\ stage = "deduped"
  /\ ranked' = rank(deduped)
  /\ deduped' = ranked'
  /\ filtered' = ScoredInPlace(filtered, DedupKeep(filtered), MaxReviews(deduped))
  /\ stage' = "ranked"
  /\ UNCHANGED <<raw, budget, monitor_only, returned, titleVars, parserVars, botVars>>

\* return ranked[:10]
Return ==
  /\ stage = "ranked"
  /\ returned' = SubSeq(ranked, 1, Min(TopN, Len(ranked)))
  /\ stage' = "returned"
  /\ UNCHANGED <<raw, budget, monitor_only, filtered, deduped, ranked, titleVars, parserVars, botVars>>

NextPipeline == Filter \/ Deduplicate \/ Rank \/ Return

SpecPipeline == InitPipeline /\ [][NextPipeline]_vars

(***************************************************************************)
(* SpecCategory: _filter_and_parse on a batch of one listing with no price, *)
(* its title built from words around the category and exclusion keywords,  *)
(* so that the listing is kept exactly when the category filter passes it. *)
(***************************************************************************)
MaxTitleWords == 3

CategoryTokens ==
  {<<"P","e","n","t","a","g","o","n"," ">>, <<"P","e","n"," ">>, <<"D","i","s","p","l","a","y"," ">>, <<"M","o","n","i","t","o","r"," ">>, <<"S","t","a","n","d"," ">>, <<"f","o","r"," ">>, <<"M","o","u","n","t",","," ">>}

CategoryRatings == {<<>>, <<"4",".","5">>, <<"1",".","2",".","3"," ","o","u","t"," ","o","f"," ","5">>}

CategoryListings ==
  {RawListing(Concat(ws), <<>>, r, <<>>, <<>>) :
     ws \in SeqsUpTo(CategoryTokens, MaxTitleWords), r \in CategoryRatings}

InitCategory ==
  /\ raw \in {<<l>> : l \in CategoryListings}
  /\ budget = DefaultBudget /\ monitor_only \in BOOLEAN
  /\ filtered = <<>> /\ deduped = <<>> /\ ranked = <<>> /\ returned = <<>>
  /\ stage = "extracted"
  /\ TitleIdle /\ ParserIdle /\ BotIdle

\* _filter_and_parse on a batch of any listings
FilterListings ==
  FilterAndParse(FilterLoop([k \in DOMAIN raw |-> ListingFacts(raw[k])], budget, monitor_only))

NextCategory == FilterListings

SpecCategory == InitCategory /\ [][NextCategory]_vars

\* handle_message from the parsed command up to its first run_in_executor
\* (bot.py:177-262)
Dispatch(h, parsed) ==
  /\ stage = "bot"
  /\ handlers[h].pc = "idle"
  /\ received < MaxMessages
  /\ received' = received + 1
  /\ IF parsed.intent = "help" THEN
       /\ replies' = replies \cup {"help"}
       /\ UNCHANGED handlers
     ELSE IF parsed.intent = "status" THEN
       /\ replies' = replies \cup {"status"}
       /\ UNCHANGED handlers
     ELSE IF parsed.intent = "results" THEN
       /\ replies' = replies \cup {IF last_results # <<>> THEN "results" ELSE "no_recent_results"}
       /\ UNCHANGED handlers
     ELSE IF parsed.intent = "search" THEN
       /\ replies' = replies \cup {"searching"}
       /\ handlers' = [handlers EXCEPT ![h] = [IdleHandler EXCEPT
                          !.pc = "search_queued", !.query = parsed.query,
                          !.budget = parsed.budget]]
     ELSE IF parsed.intent = "add" THEN
       IF last_results = <<>> THEN
         /\ replies' = replies \cup {"no_results_to_add"}
         /\ UNCHANGED handlers
       ELSE IF to_add(last_results, parsed.items) = <<>> THEN
         /\ replies' = replies \cup {"no_valid_items"}
         /\ UNCHANGED handlers
       ELSE
         /\ replies' = replies \cup {"adding"}
         /\ handlers' = [handlers EXCEPT ![h] = [IdleHandler EXCEPT
                            !.pc = "add_queued", !.items = parsed.items,
                            !.products = products_to_add(last_results, parsed.items)]]
     ELSE IF parsed.intent = "cart" THEN
       /\ replies' = replies \cup {"taking_screenshot"}
       /\ handlers' = [handlers EXCEPT ![h] = [IdleHandler EXCEPT !.pc = "cart_queued"]]
     ELSE
       /\ replies' = replies \cup {"did_not_understand"}
       /\ UNCHANGED handlers
  /\ UNCHANGED <<last_results, browser_context, browser_lock, cart_calls, stage,
                 titleVars, parserVars, pipelineVars>>

\* handle_message (bot.py:168-262): parse the text, then dispatch on the intent
HandleMessage(h, msg) == Dispatch(h, parse_message(msg))

Queued == {"search_queued", "add_queued", "cart_queued"}
Running == {"search_running", "add_running", "cart_running"}

Operation(pc) ==
  IF pc \in {"search_queued", "search_running", "search_returned", "search_raised"} THEN "search"
  ELSE IF pc \in {"add_queued", "add_running", "add_returned", "add_raised"} THEN "add"
  ELSE "cart"

\* a variant of WorkerStart that does not wait for browser_lock
WorkerStartNoLock(h) ==
  /\ stage = "bot"
  /\ handlers[h].pc \in Queued
  /\ \/ /\ browser_lock' = h
        /\ browser_context' = TRUE
        /\ cart_calls' = IF handlers[h].pc = "add_queued"
                         THEN cart_calls \cup {handlers[h].products} ELSE cart_calls
        /\ handlers' = [handlers EXCEPT ![h].pc = Operation(handlers[h].pc) \o "_running"]
     \/ /\ ~browser_context
        /\ UNCHANGED <<browser_lock, browser_context, cart_calls>>
        /\ handlers' = [handlers EXCEPT ![h].pc = Operation(handlers[h].pc) \o "_raised"]
  /\ UNCHANGED <<last_results, replies, received, stage, titleVars, parserVars, pipelineVars>>

\* the worker thread enters "with browser_lock" and calls _get_browser
\* (bot.py:80-101).  Either it has the browser, reusing the context or creating
\* it when there is none (bot.py:53-61), and starts its operation; or there is no
\* context yet and creating it raises: browser_context stays None and the
\* exception leaves the with block, releasing the lock
WorkerStart(h) ==
  /\ stage = "bot"
  /\ handlers[h].pc \in Queued
  /\ browser_lock = 0
  /\ \/ /\ browser_lock' = h
        /\ browser_context' = TRUE
        /\ cart_calls' = IF handlers[h].pc = "add_queued"
                         THEN cart_calls \cup {handlers[h].products} ELSE cart_calls
        /\ handlers' = [handlers EXCEPT ![h].pc = Operation(handlers[h].pc) \o "_running"]
     \/ /\ ~browser_context
        /\ UNCHANGED <<browser_lock, browser_context, cart_calls>>
        /\ handlers' = [handlers EXCEPT ![h].pc = Operation(handlers[h].pc) \o "_raised"]
  /\ UNCHANGED <<last_results, replies, received, stage, titleVars, parserVars, pipelineVars>>

\* the operation returns and the lock is released; a search returns its results
WorkerReturns(h, found) ==
  /\ stage = "bot"
  /\ handlers[h].pc \in Running
  /\ browser_lock = h
  /\ browser_lock' = 0
  /\ handlers' = [handlers EXCEPT
                    ![h].pc = Operation(handlers[h].pc) \o "_returned",
                    ![h].results = IF handlers[h].pc = "search_running" THEN found ELSE @]
  /\ UNCHANGED <<last_results, browser_context, cart_calls, replies, received, stage,
                 titleVars, parserVars, pipelineVars>>

\* the operation raises; leaving the with block releases the lock
WorkerRaises(h) ==
  /\ stage = "bot"
  /\ handlers[h].pc \in Running
  /\ browser_lock = h
  /\ browser_lock' = 0
  /\ handlers' = [handlers EXCEPT ![h].pc = Operation(handlers[h].pc) \o "_raised"]
  /\ UNCHANGED <<last_results, browser_context, cart_calls, replies, received, stage,
                 titleVars, parserVars, pipelineVars>>

\* a variant of Resume in which a search that raised clears last_results
ResumeClearsOnFailure(h) ==
  /\ stage = "bot"
  /\ handlers[h].pc \in {"search_returned", "search_raised", "add_returned", "add_raised",
                          "cart_returned", "cart_raised"}
  /\ last_results' = IF handlers[h].pc = "search_returned" THEN handlers[h].results
                     ELSE IF handlers[h].pc = "search_raised" THEN <<>>
                     ELSE last_results
  /\ replies' = replies \cup
       {IF handlers[h].pc = "search_returned"
        THEN (IF handlers[h].results # <<>> THEN "results" ELSE "no_results_found")
        ELSE IF handlers[h].pc = "search_raised" THEN "search_failed"
        ELSE IF handlers[h].pc = "add_returned" THEN "cart_results"
        ELSE IF handlers[h].pc = "add_raised" THEN "add_failed"
        ELSE IF handlers[h].pc = "cart_returned" THEN "cart_photo"
        ELSE "cart_failed"}
  /\ handlers' = [handlers EXCEPT ![h] = IdleHandler]
  /\ UNCHANGED <<browser_context, browser_lock, cart_calls, received, stage,
                 titleVars, parserVars, pipelineVars>>

\* the handler resumes after its await (bot.py:207-212, 240-244, 251-255)
Resume(h) ==
  /\ stage = "bot"
  /\ handlers[h].pc \in {"search_returned", "search_raised", "add_returned", "add_raised",
                          "cart_returned", "cart_raised"}
  /\ last_results' = IF handlers[h].pc = "search_returned" THEN handlers[h].results
                     ELSE last_results
  /\ replies' = replies \cup
       {IF handlers[h].pc = "search_returned"
        THEN (IF handlers[h].results # <<>> THEN "results" ELSE "no_results_found")
        ELSE IF handlers[h].pc = "search_raised" THEN "search_failed"
        ELSE IF handlers[h].pc = "add_returned" THEN "cart_results"
        ELSE IF handlers[h].pc = "add_raised" THEN "add_failed"
        ELSE IF handlers[h].pc = "cart_returned" THEN "cart_photo"
        ELSE "cart_failed"}
  /\ handlers' = [handlers EXCEPT ![h] = IdleHandler]
  /\ UNCHANGED <<browser_context, browser_lock, cart_calls, received, stage,
                 titleVars, parserVars, pipelineVars>>

InitBot ==
  /\ BotIdle
  /\ stage = "bot"
  /\ TitleIdle /\ ParserIdle /\ PipelineIdle

NextBot ==
  \/ \E h \in HandlerIds, msg \in BotMessages : HandleMessage(h, msg)
  \/ \E h \in HandlerIds : WorkerStart(h)
  \/ \E h \in HandlerIds, found \in SearchOutcomes : WorkerReturns(h, found)
  \/ \E h \in HandlerIds : WorkerRaises(h)
  \/ \E h \in HandlerIds : Resume(h)

SpecBot == InitBot /\ [][NextBot]_vars

(***************************************************************************)
(* Properties of the pipeline (SpecPipeline).                              *)
(***************************************************************************)
\* as many distinct normalized titles as listings, and as many distinct asins as
\* listings that have one
NoDuplicates(products) ==
  /\ Cardinality({CollapseSpaces(Lower(products[k].title)) : k \in DOMAIN products})
       = Len(products)
  /\ Cardinality({products[k].asin : k \in DOMAIN products} \ {<<>>})
       = Cardinality({k \in DOMAIN products : products[k].asin # <<>>})

\* C1: the list produced by filter -> deduplicate -> rank, and the list returned
\* from it, hold no two listings with the same non-empty asin and no two whose
\* titles are equal after lower-casing and collapsing whitespace runs
DedupInvariant ==
  /\ stage = "ranked" => NoDuplicates(ranked)
  /\ stage = "returned" => NoDuplicates(returned)

\* three listings were parsed, two of them with one title but different asins,
\* and two listings are returned
DedupWitness ==
  /\ stage = "returned" /\ Len(filtered) = 3 /\ Len(returned) = 2
  /\ \E i, j \in DOMAIN filtered :
       /\ i # j /\ filtered[i].asin # filtered[j].asin
       /\ CollapseSpaces(Lower(filtered[i].title)) = CollapseSpaces(Lower(filtered[j].title))

\* C2: every listing _filter_and_parse keeps has an unknown price or a price <=
\* budget, and a raw listing whose price parses as unknown and that passes the
\* category filter is kept
BudgetFilter ==
  stage = "filtered" =>
    /\ \A k \in DOMAIN filtered :
         filtered[k].price = None \/ DecLeq(filtered[k].price, budget)
    /\ \A k \in DOMAIN raw :
         (PoolFacts[raw[k]].price = None /\ (monitor_only => PoolFacts[raw[k]].is_monitor))
           => \E j \in DOMAIN filtered : filtered[j] = PoolFacts[raw[k]].parsed

\* a batch with a listing of unknown price that is kept, a listing priced over
\* the budget, and a kept listing priced exactly at the budget
BudgetWitness ==
  /\ stage = "filtered"
  /\ \E k \in DOMAIN raw :
       /\ PoolFacts[raw[k]].price = None
       /\ \E j \in DOMAIN filtered : filtered[j] = PoolFacts[raw[k]].parsed
  /\ \E k \in DOMAIN raw :
       PoolFacts[raw[k]].price # None /\ DecLess(budget, PoolFacts[raw[k]].price)
  /\ \E j \in DOMAIN filtered : filtered[j].price # None /\ DecEq(filtered[j].price, budget)

\* C3: every score _rank assigns is between 0 and 100 (scores are in tenths of a
\* point: between 0 and 1000)
ScoreBound ==
  stage \in {"ranked", "returned"} =>
    \A k \in DOMAIN ranked : 0 <= ranked[k].score /\ ranked[k].score <= 1000

Unscored(p) == [f \in DOMAIN p \ {"score"} |-> p[f]]

StableDescending(input, output) ==
  /\ Len(output) = Len(input)
  /\ \A i, j \in DOMAIN output : i < j => output[i].score >= output[j].score
  /\ \A i, j \in DOMAIN output :
       (i < j /\ output[i].score = output[j].score) =>
         \E a, b \in DOMAIN input :
           a < b /\ input[a] = Unscored(output[i]) /\ input[b] = Unscored(output[j])

\* C4: the list _rank returns is in non-increasing order of score, and two
\* listings of equal score are in the relative order they had in the
\* deduplicated list _rank was given
StableOrdering ==
  [][(stage = "deduped" /\ stage' = "ranked") => StableDescending(deduped, ranked')]_vars

\* three listings were ranked, two of them with equal scores, and the sort moved
\* a listing ahead of one that preceded it
StableWitness ==
  /\ stage = "ranked" /\ Len(ranked) = 3
  /\ \E i, j \in DOMAIN ranked : i < j /\ ranked[i].score = ranked[j].score
  /\ \E a, b \in DOMAIN filtered :
       /\ a < b /\ "score" \in DOMAIN filtered[a] /\ "score" \in DOMAIN filtered[b]
       /\ filtered[a].score < filtered[b].score

(***************************************************************************)
(* Properties of the parser (SpecParser).                                  *)
(***************************************************************************)
ControlPhrases == HelpPhrases \cup StatusPhrases \cup CartPhrases \cup ResultsPhrases

\* C5: parse_message returns an intent among help, status, cart, results, add,
\* search, never unknown: a text that equals no control phrase and does not
\* start with "add" is a search, whether or not a trigger prefixes it
NeverUnknown ==
  stage = "parsed" =>
    /\ result.intent \in {"help", "status", "cart", "results", "add", "search"}
    /\ (Normalized(text) \notin ControlPhrases /\ ~StartsWith(Normalized(text), W_add))
         => result.intent = "search"

\* a text that no trigger prefixes was parsed as a search
NeverUnknownWitness ==
  /\ stage = "parsed" /\ result.intent = "search"
  /\ Normalized(text) # <<>> /\ ~TriggerMatches(Normalized(text))

\* C6: the intent is a control intent exactly when the whole message, trimmed,
\* lower-cased and without one leading "/", equals a phrase of that intent; this
\* comes before the add and search rules, and a message that only starts with a
\* control word is not that control intent
ControlExact ==
  stage = "parsed" =>
    /\ result.intent = "help" <=> Normalized(text) \in HelpPhrases
    /\ result.intent = "status" <=> Normalized(text) \in StatusPhrases
    /\ result.intent = "cart" <=> Normalized(text) \in CartPhrases
    /\ result.intent = "results" <=> Normalized(text) \in ResultsPhrases

\* a message that starts with the control word "cart" and goes on was parsed as a
\* search
ControlWitness ==
  /\ stage = "parsed" /\ result.intent = "search"
  /\ StartsWith(Normalized(text), <<"c","a","r","t"," ">>)

\* the remainder of an add command (parser.py:62)
AddRest == Strip(Slice(Normalized(text), 4, Len(Normalized(text)) + 1))

\* C7: for a message that starts with "add", whose remainder is not the word
\* "all" and holds at least one integer token, the intent is add and the items
\* are the integer tokens of the remainder in order of appearance
AddIntegerTokens ==
  (/\ stage = "parsed"
   /\ Normalized(text) \notin ControlPhrases
   /\ StartsWith(Normalized(text), W_add)
   /\ AddRest # W_all
   /\ FindAllInts(AddRest) # <<>>)
    => result.intent = "add" /\ result.items = ItemsList(FindAllInts(AddRest))

NoBudgetSignal(s) ==
  /\ \A pat \in 1..NumPatterns : ~PatMatches(pat, s)
  /\ ~LastWordIsBudget(s)

\* C8: a search message with no budget signal (no budget pattern matches and the
\* last token is not a bare integer > 10) gets budget 300, not specified
DocumentedDefaultBudget ==
  (/\ stage = "parsed"
   /\ result.intent = "search"
   /\ NoBudgetSignal(SearchRest(Normalized(text))))
    => result.budget = Dec(300, 1) /\ ~result.budget_specified

(***************************************************************************)
(* Properties of the bot (SpecBot) and of the title normalizer (SpecTitle). *)
(***************************************************************************)
\* C9: "add all" passes every listing of last_results to add_to_cart
AddAllPassesAll ==
  [][\A h \in HandlerIds :
       (handlers[h].pc = "idle" /\ handlers'[h].pc = "add_queued" /\ handlers'[h].items.all)
         => handlers'[h].products = [k \in DOMAIN last_results |-> CartItem(last_results[k])]]_vars

\* C10: _clean_title(_clean_title(t)) = _clean_title(t)
Idempotent == stage = "recleaned" => recleaned = cleaned

(***************************************************************************)
(* Further properties of the pipeline (SpecPipeline).                      *)
(***************************************************************************)
\* C11: _filter_and_parse completes without raising on every batch, whatever
\* the text of the fields: the pipeline never ends in a raised exception
NeverRaises == stage # "raised"

(***************************************************************************)
(* Properties of the category filter (SpecCategory).                       *)
(***************************************************************************)
\* the first word of a text: its leading run of word characters
FirstWord(s) == Slice(s, 1, WordEnd(s, 1))

\* the decision as stated: a category keyword is in the title, and no exclusion
\* keyword is the first word, or a word before " for ", or a word before ","
StatedAccepts(t) ==
  /\ \E term \in monitor_terms : Contains(Lower(t), term)
  /\ \A k \in DOMAIN EXCLUDE_KEYWORDS :
       /\ FirstWord(Lower(t)) # EXCLUDE_KEYWORDS[k]
       /\ ~Contains(Lower(t), <<" ">> \o EXCLUDE_KEYWORDS[k] \o <<" ","f","o","r"," ">>)
       /\ ~Contains(Lower(t), <<" ">> \o EXCLUDE_KEYWORDS[k] \o <<",">>)

\* C12: with the category flag on, a listing is accepted exactly when its title
\* holds a category keyword and no exclusion keyword is its first word, or in
\* "<kw> for ", or right before a comma; with the flag off none is rejected
CategoryDecision ==
  stage = "filtered" =>
    (filtered # <<>> <=> (~monitor_only \/ StatedAccepts(raw[1].title)))

\* C13: the rating of every normalized listing is unknown or lies between 0.0
\* and 5.0, whichever form of rating text it was parsed from
RatingRange ==
  \A k \in DOMAIN filtered :
    \/ filtered[k].rating = None
    \/ DecLeq(Dec(0, 1), filtered[k].rating) /\ DecLeq(filtered[k].rating, Dec(5, 1))

(***************************************************************************)
(* Further properties of the parser (SpecParser).                          *)
(***************************************************************************)
\* C14: the items of an add command are the marker "all" or an ordered set of
\* 1-based indices: each index is at least 1 and none occurs twice
ItemsOrderedSet ==
  (stage = "parsed" /\ result.intent = "add" /\ result.items # ItemsAll) =>
    LET items == result.items.list
    IN /\ \A k \in DOMAIN items : items[k] >= 1
       /\ \A j, k \in DOMAIN items : items[j] = items[k] => j = k

(***************************************************************************)
(* Further properties of the pipeline stages (SpecPipeline).               *)
(***************************************************************************)
\* C15: no stage changes its input: _filter_and_parse leaves the raw batch as it
\* was, _deduplicate leaves the filtered list as it was, and _rank leaves the
\* deduplicated list and the records in it (those of the filtered list too) as
\* they were
StagesLeaveInput ==
  [][/\ raw' = raw
     /\ stage = "filtered" => filtered' = filtered
     /\ stage = "deduped" => (deduped' = deduped /\ filtered' = filtered)]_vars

\* the text with only the leftmost match of pattern pat taken out
RemoveFirstMatch(pat, s) ==
  LET i == PatFirst(pat, s)
  IN Slice(s, 1, i) \o Slice(s, PatEnd(pat, s, i), Len(s) + 1)

\* the query the clean-up makes of what is left of the search text
CleanedQuery(rest) ==
  LET query == Strip(CollapseSpaces(RemoveFillers(Strip(rest))))
  IN IF query = <<>> THEN DefaultQuery ELSE query

\* C16: when a budget pattern matches, the budget is the number of the first
\* match of the first matching pattern, it is marked as specified, and the query
\* is made of the text with exactly that one match removed
OneMatchRemoved ==
  LET rest == SearchRest(Normalized(text))
      matching == {pat \in 1..NumPatterns : PatMatches(pat, rest)}
      first == CHOOSE p \in matching : \A q \in matching : p <= q
  IN (stage = "parsed" /\ result.intent = "search" /\ matching # {}) =>
       /\ result.budget = PatBudget(first, rest)
       /\ result.budget_specified
       /\ result.query = CleanedQuery(RemoveFirstMatch(first, rest))

\* a bare integer: one or more digits and nothing else
BareInteger(w) == w # <<>> /\ \A k \in DOMAIN w : IsDigit(w[k])

\* C17: when no budget pattern matches, the last whitespace-separated token is
\* taken as the budget, marked explicit, and removed from the query exactly when
\* it is a bare integer greater than 10; otherwise the budget stays the default,
\* not specified, and the whole text, numbers included, goes into the query
LastTokenHeuristic ==
  LET rest == SearchRest(Normalized(text))
      t == Strip(rest)
      w == LastWord(rest)
  IN (/\ stage = "parsed" /\ result.intent = "search"
      /\ \A pat \in 1..NumPatterns : ~PatMatches(pat, rest)) =>
       IF BareInteger(w) /\ DigitsValue(w) > 10
       THEN /\ result.budget = Dec(DigitsValue(w), 1)
            /\ result.budget_specified
            /\ result.query = CleanedQuery(Slice(t, 1, Len(t) - Len(w) + 1))
       ELSE /\ result.budget = DefaultBudget
            /\ ~result.budget_specified
            /\ result.query = CleanedQuery(rest)

\* a search whose last token is the bare integer 10 was parsed: no budget pattern
\* matches, and the 10 is still the end of the query
LastTokenWitness ==
  LET rest == SearchRest(Normalized(text))
  IN /\ stage = "parsed" /\ result.intent = "search"
     /\ \A pat \in 1..NumPatterns : ~PatMatches(pat, rest)
     /\ LastWord(rest) = <<"1","0">>
     /\ LastWord(result.query) = <<"1","0">>
     /\ Len(result.query) > 2

\* two listings share a key: the same non-empty identifier, or the same
\* normalized title
SharesKey(a, b) ==
  \/ a.asin # <<>> /\ a.asin = b.asin
  \/ TitleKey(a.title) = TitleKey(b.title)

\* the listings of s at the indices in K, in the order of s
Subsequence(s, K) ==
  LET g[k \in 0..Len(s)] ==
        IF k = 0 THEN <<>>
        ELSE IF k \in K THEN Append(g[k - 1], s[k]) ELSE g[k - 1]
  IN g[Len(s)]

\* C18: _deduplicate returns the subsequence of its input, in input order, of
\* the listings that share no key with an earlier kept listing; a dropped
\* listing records nothing
KeptSubsequence ==
  stage = "deduped" =>
    \E K \in SUBSET DOMAIN filtered :
      /\ \A k \in DOMAIN filtered :
           k \in K <=> ~\E j \in K : j < k /\ SharesKey(filtered[j], filtered[k])
      /\ deduped = Subsequence(filtered, K)

\* the second of three listings was dropped for its title, and the third, with
\* the identifier of the second and a new title, was kept
KeptSubsequenceWitness ==
  /\ stage = "deduped" /\ Len(filtered) = 3
  /\ TitleKey(filtered[1].title) = TitleKey(filtered[2].title)
  /\ filtered[1].asin # filtered[2].asin
  /\ filtered[3].asin = filtered[2].asin /\ filtered[3].asin # <<>>
  /\ deduped = <<filtered[1], filtered[3]>>

(***************************************************************************)
(* Further properties of the bot (SpecBot).                                *)
(***************************************************************************)
\* at most one handler's browser operation is running, and it holds browser_lock
\* and has a browser context
OneOperation ==
  /\ \A g, h \in HandlerIds :
       (handlers[g].pc \in Running /\ handlers[h].pc \in Running) => g = h
  /\ \A h \in HandlerIds :
       handlers[h].pc \in Running => (browser_lock = h /\ browser_context)
  /\ browser_lock # 0 => handlers[browser_lock].pc \in Running

\* the browser context, once there, is never dropped or made again, and the step
\* that makes it is the start of an operation by the thread that takes the lock
CreatedOnce ==
  /\ browser_context => browser_context'
  /\ browser_context' # browser_context =>
       \E h \in HandlerIds :
         /\ handlers[h].pc \in Queued /\ handlers'[h].pc \in Running
         /\ browser_lock = 0 /\ browser_lock' = h

\* C19: in every interleaving of the worker threads at most one browser
\* operation (search, add-to-cart, cart screenshot) runs at a time, under
\* browser_lock, and the browser context is created at most once, by the first
\* operation that needs it
SerializedBrowser == []OneOperation /\ [][CreatedOnce]_vars

\* after an earlier operation has finished, one handler's operation runs with
\* the context while the other handler's operation waits for the lock
SerializedWitness ==
  /\ replies \cap {"results", "no_results_found", "cart_results", "cart_photo"} # {}
  /\ browser_context
  /\ \E g, h \in HandlerIds : handlers[g].pc \in Running /\ handlers[h].pc \in Queued

\* the handlers whose search has returned and that take this step
SearchCompletes == {h \in HandlerIds : handlers[h].pc = "search_returned" /\ handlers'[h].pc = "idle"}

\* C20: last_results changes only in the step in which a handler takes the
\* results of a search that returned, and is then those results; every other
\* step (a search that raised, help, status, results, add, cart, the worker
\* threads) leaves it as it was
LastResultsBySearchOnly ==
  [][IF SearchCompletes # {}
     THEN \E h \in SearchCompletes : last_results' = handlers[h].results
     ELSE last_results' = last_results]_vars

\* with the results of an earlier search stored, a later search has raised and
\* its handler is about to report the failure
LastResultsWitness ==
  /\ last_results # <<>> /\ "results" \in replies
  /\ \E h \in HandlerIds : handlers[h].pc = "search_raised"

\* the handlers whose add command starts a cart operation in this step
AddStarts == {h \in HandlerIds : handlers[h].pc = "idle" /\ handlers'[h].pc = "add_queued"}

\* an index that selects a listing of last_results
InRange(i) == 1 <= i /\ i <= Len(last_results)

\* C21: an add command passes to add_to_cart only listings of last_results: a
\* cart operation is started only when last_results is not empty and some
\* listing is selected; with a list of indices the products are those at the
\* indices i with 1 <= i <= len(last_results), as last_results[i-1], in order,
\* the other indices being dropped; and add_to_cart is only ever called with
\* the products of a started add
AddOnlyLastResults ==
  [][/\ \A h \in AddStarts :
          LET products == handlers'[h].products
              items == handlers'[h].items
              valid == SelectSeq(items.list, InRange)
          IN /\ last_results # <<>> /\ products # <<>>
             /\ \A k \in DOMAIN products :
                  \E i \in DOMAIN last_results : products[k] = CartItem(last_results[i])
             /\ ~items.all =>
                  products = [k \in DOMAIN valid |-> CartItem(last_results[valid[k]])]
     /\ cart_calls' # cart_calls =>
          \E h \in HandlerIds :
            /\ handlers[h].pc = "add_queued"
            /\ cart_calls' = cart_calls \cup {handlers[h].products}]_vars

\* an add with a list of indices is queued with fewer products than indices: an
\* index out of range was dropped and the others were kept
AddOnlyWitness ==
  \E h \in HandlerIds :
    /\ handlers[h].pc = "add_queued" /\ ~handlers[h].items.all
    /\ handlers[h].products # <<>>
    /\ Len(handlers[h].products) < Len(handlers[h].items.list)

====
